---- MODULE Spec2Model ----
(***************************************************************************)
(* A model of the vorbis decoder wrapper (src/src/lib.rs): the Decoder's   *)
(* lifecycle around the engine's entry points (ov_open_callbacks, ov_read, *)
(* ov_time_seek, ov_time_tell, ov_clear), the read callback the engine     *)
(* invokes, the translation of engine codes, and the Comment accessors.    *)
(*                                                                         *)
(* The engine (libvorbisfile) and the caller's stream are external: what   *)
(* they return is drawn from small sets.  An engine call that may invoke   *)
(* the read callback is a short process (pc): the wrapper method enters    *)
(* the engine, the engine invokes read_func any number of times, and the   *)
(* engine's return runs the rest of the method.  While pc # "caller" no    *)
(* other method can start.                                                 *)
(***************************************************************************)
EXTENDS Integers, Sequences, FiniteSets, TLC

(***************************************************************************)
(* Bounds of the model.                                                    *)
(***************************************************************************)
\* non-interrupt stream failures over one run
MaxFailures == 2
\* interrupted stream reads inside one read_func invocation
MaxInterrupts == 1
\* largest nmemb the engine requests
MaxReq == 2
\* logical bitstreams of a chained stream
MaxLinks == 2
\* longest comment byte string
MaxLen == 3
MaxComments == 3

(***************************************************************************)
(* Engine result codes named by check_errors, and the sample buffer.       *)
(***************************************************************************)
OV_HOLE == -3
OV_EREAD == -128
OV_EFAULT == -129
OV_EINVAL == -131
OV_ENOTVORBIS == -132
OV_EBADHEADER == -133
OV_EVERSION == -134
\* a code that no arm of check_errors names and the engine does not define
UnknownCode == -4
\* the sample slots of next_packet's buffer, and the bytes per slot
BufferSlots == 2048
BytesPerSample == 2

\* codes the engine defines, as far as check_errors names them
EngineDefinedCodes ==
    {0, OV_HOLE, OV_EREAD, OV_EFAULT, OV_EINVAL, OV_ENOTVORBIS,
     OV_EBADHEADER, OV_EVERSION}

\* what an engine entry point returning a status may return
StatusCodes == EngineDefinedCodes \cup {UnknownCode}

buffer_len == BufferSlots * BytesPerSample

\* what ov_read may return: a status, or a byte count up to buffer_len
ReadCodes == StatusCodes \cup {1, 2, 3, buffer_len - 1, buffer_len}

\* what ov_time_tell may return (a double): a position, or OV_EINVAL
TellValues == {0, 1, OV_EINVAL}

(***************************************************************************)
(* Option values.                                                          *)
(***************************************************************************)
NoneV == [some |-> FALSE]
Some(v) == [some |-> TRUE, val |-> v]

(***************************************************************************)
(* check_errors: Ok(()), Err(kind), or a panic.                            *)
(***************************************************************************)
\* check_errors with the arms of OV_EINVAL and OV_EBADHEADER exchanged
check_errors_swapped(code) ==
    CASE code = 0 -> [kind |-> "Ok"]
      [] code = OV_ENOTVORBIS -> [kind |-> "Err", err |-> "NotVorbis"]
      [] code = OV_EVERSION -> [kind |-> "Err", err |-> "VersionMismatch"]
      [] code = OV_EINVAL -> [kind |-> "Err", err |-> "BadHeader"]
      [] code = OV_EBADHEADER -> [kind |-> "Err", err |-> "InitialFileHeadersCorrupt"]
      [] code = OV_HOLE -> [kind |-> "Err", err |-> "Hole"]
      [] code = OV_EREAD -> [kind |-> "Panic", why |-> "unimplemented"]
      [] code = OV_EFAULT -> [kind |-> "Panic", why |-> "internal"]
      [] OTHER -> [kind |-> "Panic", why |-> "unknown"]

check_errors(code) ==
    CASE code = 0 -> [kind |-> "Ok"]
      [] code = OV_ENOTVORBIS -> [kind |-> "Err", err |-> "NotVorbis"]
      [] code = OV_EVERSION -> [kind |-> "Err", err |-> "VersionMismatch"]
      [] code = OV_EBADHEADER -> [kind |-> "Err", err |-> "BadHeader"]
      [] code = OV_EINVAL -> [kind |-> "Err", err |-> "InitialFileHeadersCorrupt"]
      [] code = OV_HOLE -> [kind |-> "Err", err |-> "Hole"]
      [] code = OV_EREAD -> [kind |-> "Panic", why |-> "unimplemented"]
      [] code = OV_EFAULT -> [kind |-> "Panic", why |-> "internal"]
      [] OTHER -> [kind |-> "Panic", why |-> "unknown"]

(***************************************************************************)
(* State.                                                                  *)
(*   dec        the Decoder: "unborn" before Decoder::new has returned,    *)
(*              "failed" when it returned Err or panicked, "live",         *)
(*              "dropped"                                                  *)
(*   seq        the packet sequence in existence: kind "none", "borrow"    *)
(*              (PacketsIter) or "own" (PacketsIntoIter); ended: a pull on *)
(*              it has returned None; dropped: it has been dropped         *)
(*   panicked   "no", "panic" (a panic is propagating), "unwound"          *)
(*   pc, call   where control is: "caller", or inside the engine's `call`  *)
(*              ("engine"), or inside read_func ("read_func")              *)
(*   read_error, current_logical_bitstream   the fields of DecoderData     *)
(*   clearCalls the number of ov_clear calls so far                        *)
(*   interrupts, nmemb, cbRet   the engine's use of read_func in the       *)
(*              running call: the interrupted reads of the running         *)
(*              invocation, its nmemb, and the value last returned         *)
(*   lastOp, lastCode, lastRes   the last method called, what the engine   *)
(*              returned in it (NoneV until it returns), and what the      *)
(*              method returned                                            *)
(*   failures   non-interrupt stream failures so far; the k-th failure's   *)
(*              io::Error is identified by k                               *)
(*   failedInCall   the stream failed (non-interrupt) in the running or    *)
(*              last engine call                                           *)
(*   reportedUpTo, prevReportedUpTo   the value of failures when the last  *)
(*              ReadError item was produced, and its value before the last *)
(*              pull returned                                              *)
(*   endedBefore    seq.ended when the last pull started                   *)
(*   prevLink   current_logical_bitstream before the last ov_read returned *)
(*   lastStream the result of the stream read read_func made last in the   *)
(*              invocation that is running or has just returned            *)
(*   vc, cidx, cm, cop, cres   the engine's comment list, the index last   *)
(*              given to comment_at, the Comment in hand, the accessor     *)
(*              last called on it (with its argument) and its result       *)
(*   iters      the CommentsIter values the caller holds: each one's index,*)
(*              what it has yielded so far, whether next() returned None   *)
(*   ckey, cval the results of the last key() and value() on the Comment   *)
(*              in hand (NoRes when not called on it yet)                  *)
(***************************************************************************)
VARIABLES dec, seq, panicked, pc, call, read_error, current_logical_bitstream,
          clearCalls, interrupts, nmemb, cbRet,
          lastOp, lastCode, lastRes, failures, failedInCall,
          reportedUpTo, prevReportedUpTo, endedBefore, prevLink, lastStream,
          vc, cidx, cm, cop, cres, ckey, cval, iters

decVars == <<dec, seq, panicked, pc, call, read_error,
             current_logical_bitstream, clearCalls, interrupts,
             nmemb, cbRet, lastOp, lastCode, lastRes, failures, failedInCall,
             reportedUpTo, prevReportedUpTo, endedBefore, prevLink,
             lastStream>>
commentVars == <<vc, cidx, cm, cop, cres, ckey, cval, iters>>
vars == <<decVars, commentVars>>

NoSeq == [kind |-> "none", ended |-> FALSE, dropped |-> FALSE]
NoRes == [kind |-> "NoRes"]
\* the caller's names for the CommentsIter values it may hold
Cursors == {"first", "second"}
NoIter == [open |-> FALSE, index |-> 0, yielded |-> <<>>, ended |-> FALSE]
NoIters == [i \in Cursors |-> NoIter]
Running == [kind |-> "Running"]

(***************************************************************************)
(* The read callback.                                                      *)
(***************************************************************************)
\* what one data.reader.read(buffer) may return for a buffer of n bytes
StreamResults(n) ==
    {[kind |-> "Ok", nb |-> k] : k \in 0..n}
        \cup {[kind |-> "Err", ek |-> "Interrupted"],
              [kind |-> "Err", ek |-> "Other"]}

\* a read_func that stores an interrupted failure like any other
ReadFuncStep_store_interrupted(r, slot, e) ==
    IF r.kind = "Ok" THEN [done |-> TRUE, ret |-> r.nb, slot |-> slot]
    ELSE [done |-> TRUE, ret |-> 0, slot |-> Some(e)]

\* a read_func that keeps the first error it stored
ReadFuncStep_keep_first(r, slot, e) ==
    CASE r.kind = "Ok" -> [done |-> TRUE, ret |-> r.nb, slot |-> slot]
      [] r.kind = "Err" /\ r.ek = "Interrupted" ->
            [done |-> FALSE, ret |-> 0, slot |-> slot]
      [] OTHER -> [done |-> TRUE, ret |-> 0,
                   slot |-> IF slot.some THEN slot ELSE Some(e)]

\* one turn of read_func's loop on stream result r; e identifies r's error
ReadFuncStep(r, slot, e) ==
    CASE r.kind = "Ok" -> [done |-> TRUE, ret |-> r.nb, slot |-> slot]
      [] r.kind = "Err" /\ r.ek = "Interrupted" ->
            [done |-> FALSE, ret |-> 0, slot |-> slot]
      [] OTHER -> [done |-> TRUE, ret |-> 0, slot |-> Some(e)]

(***************************************************************************)
(* Packet assembly.                                                        *)
(***************************************************************************)
\* the engine's vorbis_info of logical bitstream `link`
ov_info(link) ==
    [channels |-> link + 1, rate |-> 44100 + link,
     bitrate_upper |-> 3 + link, bitrate_nominal |-> 2 + link,
     bitrate_lower |-> 1 + link, bitrate_window |-> link]

\* a Packet stamped with the info of the first logical bitstream
Packet_first_link(len, link) ==
    LET infos == ov_info(0) IN
    [kind |-> "Packet",
     data |-> len \div BytesPerSample,
     channels |-> infos.channels % 65536,
     rate |-> infos.rate,
     bitrate_upper |-> infos.bitrate_upper,
     bitrate_nominal |-> infos.bitrate_nominal,
     bitrate_lower |-> infos.bitrate_lower,
     bitrate_window |-> infos.bitrate_window]

\* the Ok(Packet) of next_packet for a read of len bytes in bitstream link
Packet(len, link) ==
    LET infos == ov_info(link) IN
    [kind |-> "Packet",
     data |-> len \div BytesPerSample,
     channels |-> infos.channels % 65536,
     rate |-> infos.rate,
     bitrate_upper |-> infos.bitrate_upper,
     bitrate_nominal |-> infos.bitrate_nominal,
     bitrate_lower |-> infos.bitrate_lower,
     bitrate_window |-> infos.bitrate_window]

\* next_packet reading read_error without taking it
next_packet_peek(code, slot, link) ==
    IF code = 0
    THEN IF slot.some
         THEN [item |-> [kind |-> "Err", err |-> "ReadError", io |-> slot.val],
               slot |-> slot]
         ELSE [item |-> [kind |-> "None"], slot |-> slot]
    ELSE IF code < 0
    THEN [item |-> check_errors(code), slot |-> slot]
    ELSE [item |-> Packet(code, link), slot |-> slot]

\* next_packet ending the sequence on every 0, whatever read_error holds
next_packet_silent(code, slot, link) ==
    IF code = 0
    THEN [item |-> [kind |-> "None"], slot |-> NoneV]
    ELSE IF code < 0
    THEN [item |-> check_errors(code), slot |-> slot]
    ELSE [item |-> Packet(code, link), slot |-> slot]

\* next_packet after ov_read returned `code` and wrote `link`: the item it
\* returns and the read_error it leaves
next_packet(code, slot, link) ==
    IF code = 0
    THEN IF slot.some
         THEN [item |-> [kind |-> "Err", err |-> "ReadError", io |-> slot.val],
               slot |-> NoneV]
         ELSE [item |-> [kind |-> "None"], slot |-> NoneV]
    ELSE IF code < 0
    THEN LET r == check_errors(code) IN
         [item |-> IF r.kind = "Ok"
                   THEN [kind |-> "Panic", why |-> "unreachable"]
                   ELSE r,
          slot |-> slot]
    ELSE [item |-> Packet(code, link), slot |-> slot]

\* time_tell with the engine's ov_time_tell returning x
time_tell(x) == [kind |-> "Ok", val |-> x]

\* a Drop for Decoder that does not call ov_clear
Decoder_drop_leak(clears) == clears

\* Drop for Decoder: ov_clear is called
Decoder_drop(clears) == clears + 1

(***************************************************************************)
(* The Decoder's lifecycle.                                                *)
(***************************************************************************)
Init ==
    /\ dec = "unborn"
    /\ seq = NoSeq
    /\ panicked = "no"
    /\ pc = "caller"
    /\ call = "none"
    /\ read_error = NoneV
    /\ current_logical_bitstream = 0
    /\ clearCalls = 0
    /\ interrupts = 0
    /\ nmemb = 0
    /\ cbRet = 0
    /\ lastOp = "none"
    /\ lastCode = NoneV
    /\ lastRes = NoRes
    /\ failures = 0
    /\ failedInCall = FALSE
    /\ reportedUpTo = 0
    /\ prevReportedUpTo = 0
    /\ endedBefore = FALSE
    /\ prevLink = 0
    /\ lastStream = NoRes
    /\ vc = <<>>
    /\ cidx = 0
    /\ cm = NoneV
    /\ cop = [name |-> "none", arg |-> <<>>]
    /\ cres = NoRes
    /\ ckey = NoRes
    /\ cval = NoRes
    /\ iters = NoIters

\* the caller may call a method: nothing is running and no panic propagates
CallerTurn == pc = "caller" /\ panicked = "no"

\* a method enters the engine's entry point `c`
EnterEngine(c, op) ==
    /\ pc' = "engine"
    /\ call' = c
    /\ interrupts' = 0
    /\ failedInCall' = FALSE
    /\ lastOp' = op
    /\ lastCode' = NoneV
    /\ lastRes' = Running

\* Decoder::new up to the call of ov_open_callbacks
New ==
    /\ CallerTurn
    /\ dec = "unborn"
    /\ lastOp = "none"
    /\ EnterEngine("open", "new")
    /\ read_error' = NoneV
    /\ current_logical_bitstream' = 0
    /\ UNCHANGED <<dec, seq, panicked, clearCalls, nmemb, cbRet, failures, reportedUpTo, prevReportedUpTo, endedBefore, prevLink, lastStream,
                   commentVars>>

\* the engine invokes read_func(ptr, size, nmemb, datasource); a size other
\* than 1 fails the assertion
EngineCallsReadFunc ==
    /\ pc = "engine"
    /\ \E size \in {1, 2}, n \in 1..MaxReq :
          IF size = 1
          THEN /\ pc' = "read_func"
               /\ nmemb' = n
               /\ interrupts' = 0
               /\ UNCHANGED <<panicked, call, dec, lastRes, cbRet>>
          ELSE /\ pc' = "caller"
               /\ call' = "none"
               /\ panicked' = "panic"
               /\ dec' = IF call = "open" THEN "failed" ELSE dec
               /\ lastRes' = [kind |-> "Panic", why |-> "assert"]
               /\ nmemb' = 0
               /\ interrupts' = 0
               /\ cbRet' = 0
    /\ lastStream' = NoRes
    /\ UNCHANGED <<seq, read_error, current_logical_bitstream, clearCalls,
                   lastOp, lastCode, failures, failedInCall, reportedUpTo,
                   prevReportedUpTo, endedBefore, prevLink,
                   commentVars>>

\* one turn of read_func's loop: the stream's read returns r
StreamRead ==
    /\ pc = "read_func"
    /\ \E r \in StreamResults(nmemb) :
          LET failed == r.kind = "Err" /\ r.ek = "Other"
              step == ReadFuncStep(r, read_error, failures + 1)
          IN  /\ failed => failures < MaxFailures
              /\ (~step.done) => interrupts < MaxInterrupts
              /\ read_error' = step.slot
              /\ failures' = IF failed THEN failures + 1 ELSE failures
              /\ failedInCall' = (failedInCall \/ failed)
              /\ interrupts' = IF step.done THEN interrupts ELSE interrupts + 1
              /\ pc' = IF step.done THEN "engine" ELSE "read_func"
              /\ cbRet' = IF step.done THEN step.ret ELSE cbRet
              /\ lastStream' = r
    /\ UNCHANGED <<dec, seq, panicked, call, current_logical_bitstream,
                   clearCalls, nmemb, lastOp, lastCode, lastRes,
                   reportedUpTo, prevReportedUpTo, endedBefore, prevLink,
                   commentVars>>

\* ov_open_callbacks returns `code`; the rest of Decoder::new.  On Err the
\* Box<DecoderData> is dropped with whatever read_error it holds.
OpenReturns ==
    /\ pc = "engine"
    /\ call = "open"
    /\ \E code \in StatusCodes :
          LET r == check_errors(code) IN
          /\ lastCode' = Some(code)
          /\ lastRes' = r
          /\ dec' = IF r.kind = "Ok" THEN "live" ELSE "failed"
          /\ panicked' = IF r.kind = "Panic" THEN "panic" ELSE "no"
          /\ read_error' = IF r.kind = "Ok" THEN read_error ELSE NoneV
    /\ pc' = "caller"
    /\ call' = "none"
    /\ interrupts' = 0
    /\ nmemb' = 0
    /\ cbRet' = 0
    /\ lastStream' = NoRes
    /\ UNCHANGED <<seq, current_logical_bitstream, clearCalls, lastOp, failures, failedInCall,
                   reportedUpTo, prevReportedUpTo, endedBefore, prevLink,
                   commentVars>>

\* time_seek up to the call of ov_time_seek
TimeSeek ==
    /\ CallerTurn
    /\ dec = "live"
    /\ seq.kind = "none"
    /\ EnterEngine("seek", "seek")
    /\ UNCHANGED <<dec, seq, panicked, read_error, current_logical_bitstream,
                   clearCalls, nmemb, cbRet, failures, reportedUpTo,
                   prevReportedUpTo, endedBefore, prevLink, lastStream,
                   commentVars>>

\* ov_time_seek returns `code`; the rest of time_seek
SeekReturns ==
    /\ pc = "engine"
    /\ call = "seek"
    /\ \E code \in StatusCodes :
          LET r == check_errors(code) IN
          /\ lastCode' = Some(code)
          /\ lastRes' = r
          /\ panicked' = IF r.kind = "Panic" THEN "panic" ELSE "no"
    /\ pc' = "caller"
    /\ call' = "none"
    /\ interrupts' = 0
    /\ nmemb' = 0
    /\ cbRet' = 0
    /\ lastStream' = NoRes
    /\ UNCHANGED <<dec, seq, read_error, current_logical_bitstream, clearCalls,
                   lastOp, failures,
                   failedInCall, reportedUpTo, prevReportedUpTo, endedBefore, prevLink,
                   commentVars>>

\* time_tell: ov_time_tell returns x
TimeTell ==
    /\ CallerTurn
    /\ dec = "live"
    /\ seq.kind = "none"
    /\ \E x \in TellValues :
          /\ lastCode' = Some(x)
          /\ lastRes' = time_tell(x)
    /\ lastOp' = "tell"
    /\ UNCHANGED <<dec, seq, panicked, pc, call, read_error,
                   current_logical_bitstream, clearCalls, interrupts, nmemb, cbRet, failures, failedInCall,
                   reportedUpTo, prevReportedUpTo, endedBefore, prevLink, lastStream,
                   commentVars>>

\* packets(): a PacketsIter borrowing the Decoder
Packets ==
    /\ CallerTurn
    /\ dec = "live"
    /\ seq.kind = "none"
    /\ seq' = [kind |-> "borrow", ended |-> FALSE, dropped |-> FALSE]
    /\ lastOp' = "packets"
    /\ lastRes' = NoRes
    /\ UNCHANGED <<dec, panicked, pc, call, read_error,
                   current_logical_bitstream, clearCalls, interrupts, nmemb, cbRet, lastCode, failures, failedInCall,
                   reportedUpTo, prevReportedUpTo, endedBefore, prevLink, lastStream,
                   commentVars>>

\* the PacketsIter goes out of scope: the borrow ends
DropPacketsIter ==
    /\ CallerTurn
    /\ seq.kind = "borrow"
    /\ seq' = NoSeq
    /\ lastOp' = "drop_iter"
    /\ lastRes' = NoRes
    /\ UNCHANGED <<dec, panicked, pc, call, read_error,
                   current_logical_bitstream, clearCalls, interrupts, nmemb, cbRet, lastCode, failures, failedInCall,
                   reportedUpTo, prevReportedUpTo, endedBefore, prevLink, lastStream,
                   commentVars>>

\* into_packets(): the Decoder moves into a PacketsIntoIter
IntoPackets ==
    /\ CallerTurn
    /\ dec = "live"
    /\ seq.kind = "none"
    /\ seq' = [kind |-> "own", ended |-> FALSE, dropped |-> FALSE]
    /\ lastOp' = "into_packets"
    /\ lastRes' = NoRes
    /\ UNCHANGED <<dec, panicked, pc, call, read_error,
                   current_logical_bitstream, clearCalls, interrupts, nmemb, cbRet, lastCode, failures, failedInCall,
                   reportedUpTo, prevReportedUpTo, endedBefore, prevLink, lastStream,
                   commentVars>>

\* PacketsIter::next / PacketsIntoIter::next: next_packet up to ov_read
Pull ==
    /\ CallerTurn
    /\ dec = "live"
    /\ seq.kind \in {"borrow", "own"}
    /\ EnterEngine("read", "pull")
    /\ endedBefore' = seq.ended
    /\ UNCHANGED <<dec, seq, panicked, read_error, current_logical_bitstream,
                   clearCalls, nmemb, cbRet, failures, reportedUpTo,
                   prevReportedUpTo, prevLink, lastStream, commentVars>>

\* ov_read returns `code`, having written `link` to
\* current_logical_bitstream; the rest of next_packet
ReadReturns ==
    /\ pc = "engine"
    /\ call = "read"
    /\ \E code \in ReadCodes, link \in 0..(MaxLinks - 1) :
          LET np == next_packet(code, read_error, link) IN
          /\ lastCode' = Some(code)
          /\ current_logical_bitstream' = link
          /\ read_error' = np.slot
          /\ lastRes' = np.item
          /\ panicked' = IF np.item.kind = "Panic" THEN "panic" ELSE "no"
          /\ seq' = [seq EXCEPT !.ended = @ \/ np.item.kind = "None"]
          /\ prevReportedUpTo' = reportedUpTo
          /\ reportedUpTo' =
                IF np.item.kind = "Err" /\ np.item.err = "ReadError"
                THEN failures ELSE reportedUpTo
    /\ pc' = "caller"
    /\ call' = "none"
    /\ interrupts' = 0
    /\ nmemb' = 0
    /\ cbRet' = 0
    /\ lastStream' = NoRes
    /\ prevLink' = current_logical_bitstream
    /\ UNCHANGED <<dec, clearCalls, lastOp, failures, failedInCall, endedBefore,
                   commentVars>>

\* the Decoder goes out of scope
DropDecoder ==
    /\ CallerTurn
    /\ dec = "live"
    /\ seq.kind = "none"
    /\ dec' = "dropped"
    /\ clearCalls' = Decoder_drop(clearCalls)
    /\ lastOp' = "drop"
    /\ lastRes' = NoRes
    /\ UNCHANGED <<seq, panicked, pc, call, read_error,
                   current_logical_bitstream, interrupts, nmemb,
                   cbRet, lastCode, failures, failedInCall, reportedUpTo,
                   prevReportedUpTo, endedBefore, prevLink, lastStream,
                   commentVars>>

\* a PacketsIntoIter whose drop skips ov_clear once a pull has returned None
DropIntoIter_exhausted ==
    /\ CallerTurn
    /\ dec = "live"
    /\ seq.kind = "own"
    /\ seq' = [seq EXCEPT !.dropped = TRUE]
    /\ dec' = "dropped"
    /\ clearCalls' = IF seq.ended THEN clearCalls ELSE Decoder_drop(clearCalls)
    /\ lastOp' = "drop"
    /\ lastRes' = NoRes
    /\ UNCHANGED <<panicked, pc, call, read_error, current_logical_bitstream,
                   interrupts, nmemb, cbRet, lastCode, failures,
                   failedInCall, reportedUpTo, prevReportedUpTo, endedBefore, prevLink, lastStream,
                   commentVars>>

\* the PacketsIntoIter goes out of scope, and the Decoder it owns with it
DropIntoIter ==
    /\ CallerTurn
    /\ dec = "live"
    /\ seq.kind = "own"
    /\ seq' = [seq EXCEPT !.dropped = TRUE]
    /\ dec' = "dropped"
    /\ clearCalls' = Decoder_drop(clearCalls)
    /\ lastOp' = "drop"
    /\ lastRes' = NoRes
    /\ UNCHANGED <<panicked, pc, call, read_error, current_logical_bitstream,
                   interrupts, nmemb, cbRet, lastCode, failures,
                   failedInCall, reportedUpTo, prevReportedUpTo, endedBefore, prevLink, lastStream,
                   commentVars>>

\* a panic unwinds the caller's frames, dropping a live Decoder (and the
\* sequence holding it); a build that aborts on panic never takes this step
Unwind ==
    /\ panicked = "panic"
    /\ panicked' = "unwound"
    /\ IF dec = "live"
       THEN /\ dec' = "dropped"
            /\ clearCalls' = Decoder_drop(clearCalls)
            /\ seq' = IF seq.kind = "none" THEN seq
                      ELSE [seq EXCEPT !.dropped = TRUE]
       ELSE UNCHANGED <<dec, clearCalls, seq>>
    /\ UNCHANGED <<pc, call, read_error, current_logical_bitstream, interrupts, nmemb, cbRet, lastOp, lastCode, lastRes,
                   failures, failedInCall, reportedUpTo, prevReportedUpTo,
                   endedBefore, prevLink, lastStream,
                   commentVars>>

Next ==
    \/ New
    \/ EngineCallsReadFunc
    \/ StreamRead
    \/ OpenReturns
    \/ TimeSeek
    \/ SeekReturns
    \/ TimeTell
    \/ Packets
    \/ DropPacketsIter
    \/ IntoPackets
    \/ Pull
    \/ ReadReturns
    \/ DropDecoder
    \/ DropIntoIter
    \/ Unwind

Spec == Init /\ [][Next]_vars

(***************************************************************************)
(* Comments.  A byte is a number in 0..255; a comment is a sequence of     *)
(* bytes, as is the text of a String (UTF-8).                              *)
(***************************************************************************)
\* the bytes comments are made of: 0x01, 0x1F, ' ', '=', 'A', '}', '~',
\* 0x7F, and 0xC3 0xA9 (the two bytes of U+00E9)
ByteAlphabet == {1, 31, 32, 61, 65, 125, 126, 127, 195, 169}

RECURSIVE BytesUpTo(_)
\* the byte strings of length at most n over ByteAlphabet
BytesUpTo(n) ==
    IF n = 0 THEN {<<>>}
    ELSE LET shorter == BytesUpTo(n - 1) IN
         shorter \cup {Append(t, b) : t \in shorter, b \in ByteAlphabet}

CommentPool == BytesUpTo(MaxLen)

\* the keys asked for with has_key
AskedKeys == {<<>>, <<65>>, <<65, 65>>, <<65, 61>>}

RECURSIVE utf8_from(_, _)
\* whether s[i..] is well-formed UTF-8 (what String::from_utf8 accepts)
utf8_from(s, i) ==
    IF i > Len(s) THEN TRUE
    ELSE LET b == s[i]
             In(j, lo, hi) == j <= Len(s) /\ s[j] >= lo /\ s[j] <= hi
             Cont(j) == In(j, 128, 191)
         IN  CASE b < 128 -> utf8_from(s, i + 1)
               [] b >= 194 /\ b <= 223 -> Cont(i + 1) /\ utf8_from(s, i + 2)
               [] b = 224 ->
                     In(i + 1, 160, 191) /\ Cont(i + 2) /\ utf8_from(s, i + 3)
               [] (b >= 225 /\ b <= 236) \/ b = 238 \/ b = 239 ->
                     Cont(i + 1) /\ Cont(i + 2) /\ utf8_from(s, i + 3)
               [] b = 237 ->
                     In(i + 1, 128, 159) /\ Cont(i + 2) /\ utf8_from(s, i + 3)
               [] b = 240 ->
                     /\ In(i + 1, 144, 191) /\ Cont(i + 2) /\ Cont(i + 3)
                     /\ utf8_from(s, i + 4)
               [] b >= 241 /\ b <= 243 ->
                     /\ Cont(i + 1) /\ Cont(i + 2) /\ Cont(i + 3)
                     /\ utf8_from(s, i + 4)
               [] b = 244 ->
                     /\ In(i + 1, 128, 143) /\ Cont(i + 2) /\ Cont(i + 3)
                     /\ utf8_from(s, i + 4)
               [] OTHER -> FALSE

\* String::from_utf8(bytes): the String of the same bytes, or FromUtf8Error
from_utf8(bytes) ==
    IF utf8_from(bytes, 1)
    THEN [kind |-> "Ok", val |-> bytes]
    ELSE [kind |-> "Err", err |-> "FromUtf8Error"]

\* iter().position(|&b| b == x) taking the last match instead of the first
position_last(bytes, x) ==
    LET hits == {i \in 1..Len(bytes) : bytes[i] = x} IN
    IF hits = {} THEN NoneV
    ELSE Some((CHOOSE i \in hits : \A j \in hits : j <= i) - 1)

RECURSIVE position_from(_, _, _)
\* the scan of iter().position from offset i (0-based)
position_from(bytes, x, i) ==
    IF i >= Len(bytes) THEN NoneV
    ELSE IF bytes[i + 1] = x THEN Some(i)
    ELSE position_from(bytes, x, i + 1)

\* comment_buf.iter().position(|&b| b == x)
position(bytes, x) == position_from(bytes, x, 0)

\* comment_at(index) on the comment list comments
comment_at(comments, index) ==
    IF index >= 0 /\ index < Len(comments)
    THEN Some([bytes |-> comments[index + 1],
               sep_pos |-> position(comments[index + 1], 61)])
    ELSE NoneV

\* dst.clone_from_slice(src): panics unless the two slices are as long
clone_from_slice(dst, src) ==
    IF Len(dst) = Len(src)
    THEN [kind |-> "Ok", val |-> src]
    ELSE [kind |-> "Panic", why |-> "clone_from_slice"]

\* Comment::bytes: Vec::with_capacity gives a Vec of length 0
Comment_bytes(c) == clone_from_slice(<<>>, c.bytes)

\* Comment::key_bytes
key_bytes(c) ==
    IF c.sep_pos.some
    THEN [kind |-> "Ok", val |-> SubSeq(c.bytes, 1, c.sep_pos.val)]
    ELSE [kind |-> "Err", err |-> "CommentFormat"]

\* Comment::value_bytes
value_bytes(c) ==
    IF c.sep_pos.some
    THEN [kind |-> "Ok",
          val |-> SubSeq(c.bytes, c.sep_pos.val + 2, Len(c.bytes))]
    ELSE [kind |-> "Err", err |-> "CommentFormat"]

\* a Comment::has_key that accepts a requested key that starts the key
has_key_prefix(c, k) ==
    LET key0 == key_bytes(c) IN
    IF key0.kind = "Ok"
    THEN [kind |-> "Ok",
          val |-> /\ Len(k) <= Len(key0.val)
                  /\ SubSeq(key0.val, 1, Len(k)) = k]
    ELSE key0

\* Comment::has_key
has_key(c, k) ==
    LET key0 == key_bytes(c) IN
    IF key0.kind = "Ok" THEN [kind |-> "Ok", val |-> (key0.val = k)]
    ELSE key0

\* the test of Comment::key accepting '~'
key_byte_invalid_tilde(b) == b < 32 \/ b > 126 \/ b = 61

\* the test Comment::key applies to each byte of the key
key_byte_invalid(b) == b < 32 \/ b > 125 \/ b = 61

\* Comment::key
key(c) ==
    LET key0 == key_bytes(c) IN
    IF key0.kind # "Ok" THEN key0
    ELSE IF \E i \in 1..Len(key0.val) : key_byte_invalid(key0.val[i])
    THEN [kind |-> "Err", err |-> "CommentFormat"]
    ELSE LET str == from_utf8(key0.val) IN
         IF str.kind = "Ok" THEN str
         ELSE [kind |-> "Panic", why |-> "unwrap"]

\* a Comment::value that decodes the key first and fails when it does
value_after_key(c) ==
    LET key0 == key(c)
        value0 == value_bytes(c)
    IN  IF key0.kind # "Ok" THEN key0
        ELSE LET str == from_utf8(value0.val) IN
             IF str.kind = "Ok" THEN str
             ELSE [kind |-> "Err", err |-> "CommentCharacter"]

\* Comment::value
value(c) ==
    LET value0 == value_bytes(c) IN
    IF value0.kind # "Ok" THEN value0
    ELSE LET str == from_utf8(value0.val) IN
         IF str.kind = "Ok" THEN str
         ELSE [kind |-> "Err", err |-> "CommentCharacter"]

\* a Decoder that Decoder::new has returned, with some comment list
CommentInit ==
    /\ dec = "live"
    /\ seq = NoSeq
    /\ panicked = "no"
    /\ pc = "caller"
    /\ call = "none"
    /\ read_error = NoneV
    /\ current_logical_bitstream = 0
    /\ clearCalls = 0
    /\ interrupts = 0
    /\ nmemb = 0
    /\ cbRet = 0
    /\ lastOp = "new"
    /\ lastCode = Some(0)
    /\ lastRes = [kind |-> "Ok"]
    /\ failures = 0
    /\ failedInCall = FALSE
    /\ reportedUpTo = 0
    /\ prevReportedUpTo = 0
    /\ endedBefore = FALSE
    /\ prevLink = 0
    /\ lastStream = NoRes
    /\ vc \in {<<>>} \cup {<<c>> : c \in CommentPool}
    /\ cidx = 0
    /\ cm = NoneV
    /\ cop = [name |-> "none", arg |-> <<>>]
    /\ cres = NoRes
    /\ ckey = NoRes
    /\ cval = NoRes
    /\ iters = NoIters

\* the caller calls comment_at(index)
CommentAt ==
    /\ CallerTurn
    /\ dec = "live"
    /\ \E index \in -1..Len(vc) :
          /\ cidx' = index
          /\ cm' = comment_at(vc, index)
    /\ cop' = [name |-> "comment_at", arg |-> <<>>]
    /\ cres' = NoRes
    /\ ckey' = NoRes
    /\ cval' = NoRes
    /\ UNCHANGED <<decVars, vc, iters>>

\* the caller calls accessor `name` on the Comment in hand, which returns r
Access(name, arg, r) ==
    /\ CallerTurn
    /\ cm.some
    /\ cop' = [name |-> name, arg |-> arg]
    /\ cres' = r
    /\ ckey' = IF name = "key" THEN r ELSE ckey
    /\ cval' = IF name = "value" THEN r ELSE cval
    /\ UNCHANGED <<decVars, vc, cidx, cm, iters>>

KeyBytes == cm.some /\ Access("key_bytes", <<>>, key_bytes(cm.val))

ValueBytes == cm.some /\ Access("value_bytes", <<>>, value_bytes(cm.val))

HasKey == cm.some /\ \E k \in AskedKeys : Access("has_key", k, has_key(cm.val, k))

Key == cm.some /\ Access("key", <<>>, key(cm.val))

Value == cm.some /\ Access("value", <<>>, value(cm.val))

\* the caller calls bytes() on the Comment in hand
Bytes ==
    /\ CallerTurn
    /\ cm.some
    /\ LET r == Comment_bytes(cm.val) IN
          /\ cres' = r
          /\ panicked' = IF r.kind = "Panic" THEN "panic" ELSE panicked
    /\ cop' = [name |-> "bytes", arg |-> <<>>]
    /\ UNCHANGED <<dec, seq, pc, call, read_error, current_logical_bitstream,
                   clearCalls, interrupts, nmemb, cbRet, lastOp, lastCode,
                   lastRes, failures, failedInCall, reportedUpTo,
                   prevReportedUpTo, endedBefore, prevLink, lastStream, vc,
                   cidx, cm, ckey, cval,
                   iters>>

CommentNext ==
    \/ CommentAt
    \/ Bytes
    \/ KeyBytes
    \/ ValueBytes
    \/ HasKey
    \/ Key
    \/ Value

CommentSpec == CommentInit /\ [][CommentNext]_vars

(***************************************************************************)
(* Decoder::get_comment over a list of comments.                           *)
(***************************************************************************)
\* comments the engine may hold: "A=1", "A=2", "a=1", "AA=1", "A" (no
\* separator), "\x01=1" (a key byte below 0x20), "A=\xC3" (a value that is
\* not UTF-8)
GetPool == {<<65, 61, 49>>, <<65, 61, 50>>, <<97, 61, 49>>,
            <<65, 65, 61, 49>>, <<65>>, <<1, 61, 49>>, <<65, 61, 195>>}

\* the keys the caller asks for: "A", "a", "AA"
GetKeys == {<<65>>, <<97>>, <<65, 65>>}

\* the lists of at most n comments of pool
RECURSIVE CommentLists(_, _)
CommentLists(pool, n) ==
    IF n = 0 THEN {<<>>}
    ELSE LET shorter == CommentLists(pool, n - 1) IN
         shorter \cup {Append(l, c) : l \in shorter, c \in pool}

\* a get_comment that skips the comments it cannot read
RECURSIVE get_comment_lenient_from(_, _, _, _)
get_comment_lenient_from(comments, k, index, values) ==
    LET c == comment_at(comments, index) IN
    IF ~c.some THEN [kind |-> "Ok", val |-> values]
    ELSE LET h == has_key(c.val, k)
             v == value(c.val)
         IN  get_comment_lenient_from(comments, k, index + 1,
                 IF h.kind = "Ok" /\ h.val /\ v.kind = "Ok"
                 THEN Append(values, v.val) ELSE values)

get_comment_lenient(comments, k) ==
    get_comment_lenient_from(comments, k, 0, <<>>)

\* the loop of Decoder::get_comment from the CommentsIter's index on:
\* CommentsIter::next is comment_at(index), and index + 1 when it is Some
RECURSIVE get_comment_from(_, _, _, _)
get_comment_from(comments, k, index, values) ==
    LET c == comment_at(comments, index) IN
    IF ~c.some THEN [kind |-> "Ok", val |-> values]
    ELSE LET h == has_key(c.val, k) IN
         IF h.kind # "Ok" THEN h
         ELSE IF h.val
         THEN LET v == value(c.val) IN
              IF v.kind # "Ok" THEN v
              ELSE get_comment_from(comments, k, index + 1,
                                    Append(values, v.val))
         ELSE get_comment_from(comments, k, index + 1, values)

\* Decoder::get_comment
get_comment(comments, k) == get_comment_from(comments, k, 0, <<>>)

\* a Decoder that Decoder::new has returned, whose comment list is in lists
OpenedWith(lists) ==
    /\ dec = "live"
    /\ seq = NoSeq
    /\ panicked = "no"
    /\ pc = "caller"
    /\ call = "none"
    /\ read_error = NoneV
    /\ current_logical_bitstream = 0
    /\ clearCalls = 0
    /\ interrupts = 0
    /\ nmemb = 0
    /\ cbRet = 0
    /\ lastOp = "new"
    /\ lastCode = Some(0)
    /\ lastRes = [kind |-> "Ok"]
    /\ failures = 0
    /\ failedInCall = FALSE
    /\ reportedUpTo = 0
    /\ prevReportedUpTo = 0
    /\ endedBefore = FALSE
    /\ prevLink = 0
    /\ lastStream = NoRes
    /\ vc \in lists
    /\ cidx = 0
    /\ cm = NoneV
    /\ cop = [name |-> "none", arg |-> <<>>]
    /\ cres = NoRes
    /\ ckey = NoRes
    /\ cval = NoRes
    /\ iters = NoIters

GetCommentInit == OpenedWith(CommentLists(GetPool, MaxComments))

\* the caller calls get_comment(k)
GetComment ==
    /\ CallerTurn
    /\ dec = "live"
    /\ \E k \in GetKeys :
          /\ cop' = [name |-> "get_comment", arg |-> k]
          /\ cres' = get_comment(vc, k)
    /\ UNCHANGED <<decVars, vc, cidx, cm, ckey, cval, iters>>

GetCommentNext == GetComment

GetCommentSpec == GetCommentInit /\ [][GetCommentNext]_vars

(***************************************************************************)
(* Decoder::comments, CommentsIter and Decoder::fold_comments.             *)
(***************************************************************************)
\* comments the engine may hold: "A=1", "a=1", "A"
IterPool == {<<65, 61, 49>>, <<97, 61, 49>>, <<65>>}

\* Decoder::comments: a CommentsIter with index 0
Decoder_comments ==
    [open |-> TRUE, index |-> 0, yielded |-> <<>>, ended |-> FALSE]

\* a CommentsIter::next that walks the list from its end
CommentsIter_next_reversed(comments, it) ==
    LET c == comment_at(comments, Len(comments) - 1 - it.index) IN
    IF c.some
    THEN [it EXCEPT !.index = it.index + 1,
                    !.yielded = Append(it.yielded, c.val),
                    !.ended = FALSE]
    ELSE [it EXCEPT !.ended = TRUE]

\* CommentsIter::next on the iterator it: the iterator afterwards, with the
\* Comment it returned appended to yielded, or ended when it returned None
CommentsIter_next(comments, it) ==
    LET c == comment_at(comments, it.index) IN
    IF c.some
    THEN [it EXCEPT !.index = it.index + 1,
                    !.yielded = Append(it.yielded, c.val),
                    !.ended = FALSE]
    ELSE [it EXCEPT !.ended = TRUE]

\* the loop of Decoder::fold_comments from i on, with an f that pushes the
\* Comment it is given onto acc
RECURSIVE fold_comments_from(_, _, _)
fold_comments_from(comments, i, acc) ==
    IF i >= Len(comments) THEN acc
    ELSE fold_comments_from(comments, i + 1,
             Append(acc, [bytes |-> comments[i + 1],
                          sep_pos |-> position(comments[i + 1], 61)]))

\* Decoder::fold_comments
fold_comments(comments, acc) == fold_comments_from(comments, 0, acc)

IterInit == OpenedWith(CommentLists(IterPool, MaxComments))

\* the caller calls comments() and keeps the CommentsIter as i, in place of
\* the one it held there
Comments(i) ==
    /\ CallerTurn
    /\ dec = "live"
    /\ iters' = [iters EXCEPT ![i] = Decoder_comments]
    /\ UNCHANGED <<decVars, vc, cidx, cm, cop, cres, ckey, cval>>

\* the caller calls next() on the CommentsIter i
IterNext(i) ==
    /\ CallerTurn
    /\ iters[i].open
    /\ iters' = [iters EXCEPT ![i] = CommentsIter_next(vc, iters[i])]
    /\ UNCHANGED <<decVars, vc, cidx, cm, cop, cres, ckey, cval>>

\* the caller calls fold_comments(vec![], push)
FoldComments ==
    /\ CallerTurn
    /\ dec = "live"
    /\ cop' = [name |-> "fold_comments", arg |-> <<>>]
    /\ cres' = [kind |-> "Ok", val |-> fold_comments(vc, <<>>)]
    /\ UNCHANGED <<decVars, vc, cidx, cm, ckey, cval, iters>>

IterStep ==
    \/ CommentAt
    \/ FoldComments
    \/ \E i \in Cursors : Comments(i)
    \/ \E i \in Cursors : IterNext(i)

IterSpec == IterInit /\ [][IterStep]_vars

(***************************************************************************)
(* Properties of the packet sequence and of the Decoder's lifecycle.       *)
(***************************************************************************)
\* the engine has returned `lastCode.val` from the entry point of method op
Returned(op) == lastOp = op /\ pc = "caller" /\ lastCode.some

\* C1: when the stream fails (non-interrupt) during a decode-read and the
\* engine returns 0, the pull yields the ReadError of that failure and
\* leaves read_error empty; and a decode-read returning 0 with no stream
\* failure since the last ReadError item yields end-of-sequence.
C1_ReadErrorOnce ==
    (Returned("pull") /\ lastCode.val = 0) =>
        /\ failedInCall =>
              /\ lastRes = [kind |-> "Err", err |-> "ReadError", io |-> failures]
              /\ read_error = NoneV
        /\ (failures = prevReportedUpTo) => lastRes = [kind |-> "None"]

C1_Witness ==
    /\ Returned("pull")
    /\ lastCode.val = 0
    /\ failedInCall
    /\ lastRes.kind = "Err"
    /\ read_error = NoneV

\* C2: Decoder::new returns Err(ReadError) whenever the stream failed
\* (non-interrupt) during ov_open_callbacks.
C2_NewReportsReadError ==
    (Returned("new") /\ failedInCall) =>
        (lastRes.kind = "Err" /\ lastRes.err = "ReadError")

\* C3 as claimed: once a pull on the sequence has returned None, no later
\* pull on it yields a Packet or an error item.
C3_NothingAfterEnd ==
    (Returned("pull") /\ endedBefore) => lastRes.kind \notin {"Packet", "Err"}

\* C3 as amended: after a pull has returned None, a later pull on the same
\* sequence returns None exactly when its own decode-read returns 0 and the
\* stream has not failed since the last ReadError item; otherwise it yields
\* a Packet or an error item, or panics.
C3_EndIsNotSticky ==
    (Returned("pull") /\ endedBefore) =>
        /\ (lastRes = [kind |-> "None"])
              <=> (lastCode.val = 0 /\ failures = prevReportedUpTo)
        /\ lastRes.kind \in {"None", "Packet", "Err", "Panic"}

C3_Witness ==
    /\ Returned("pull")
    /\ endedBefore
    /\ lastCode.val = 0
    /\ lastRes.kind = "None"

\* C4: ov_clear has been called exactly once when the Decoder has been
\* dropped, and never before: not while it is live, and not when
\* Decoder::new returned an error or panicked.
C4_ClearExactlyOnce ==
    clearCalls = (IF dec = "dropped" THEN 1 ELSE 0)

C4_Witness ==
    /\ dec = "dropped"
    /\ seq.kind = "own"
    /\ seq.dropped
    /\ lastOp = "drop"
    /\ clearCalls = 1

\* C5 as claimed: once the owning sequence has been dropped or has returned
\* None, ov_clear has been called.
C5_ReleasedWhenExhausted ==
    (seq.kind = "own" /\ (seq.dropped \/ seq.ended)) => clearCalls >= 1

\* C5 as amended: for the owning sequence ov_clear has been called, once,
\* exactly when the sequence has been dropped; a sequence that returned None
\* and is not yet dropped still holds the engine's resources.
C5_ReleasedWhenDropped ==
    seq.kind = "own" =>
        /\ seq.dropped => clearCalls = 1
        /\ ~seq.dropped => clearCalls = 0

C5_Witness ==
    /\ seq.kind = "own"
    /\ seq.ended
    /\ seq.dropped
    /\ clearCalls = 1

\* C6: time_tell returns Err when ov_time_tell reports an error code, and
\* Ok(position) only when it reports a position.
C6_TellForwardsErrors ==
    (Returned("tell") /\ lastCode.val < 0) => lastRes.kind = "Err"

\* C7: a code returned by ov_open_callbacks, ov_time_seek or ov_read is
\* translated where the call is made: 0 gives Ok, the five named codes give
\* their error kinds, and the process panics only for OV_EFAULT and for
\* codes the engine does not define.
C7_CodesTranslated ==
    ((Returned("new") \/ Returned("seek") \/ Returned("pull"))
        /\ lastCode.val <= 0) =>
        LET c == lastCode.val IN
        /\ (c = 0 /\ lastOp # "pull") => lastRes = [kind |-> "Ok"]
        /\ c = OV_ENOTVORBIS => lastRes = [kind |-> "Err", err |-> "NotVorbis"]
        /\ c = OV_EVERSION =>
              lastRes = [kind |-> "Err", err |-> "VersionMismatch"]
        /\ c = OV_EBADHEADER => lastRes = [kind |-> "Err", err |-> "BadHeader"]
        /\ c = OV_EINVAL =>
              lastRes = [kind |-> "Err", err |-> "InitialFileHeadersCorrupt"]
        /\ c = OV_HOLE => lastRes = [kind |-> "Err", err |-> "Hole"]
        /\ lastRes.kind = "Panic" =>
              (c = OV_EFAULT \/ c \notin EngineDefinedCodes)

\* C8 as claimed: every negative result of ov_read yields an error item and
\* the call returns with the decoder still open.
C8_NegativeYieldsItem ==
    (Returned("pull") /\ lastCode.val < 0) =>
        /\ lastRes.kind = "Err"
        /\ panicked = "no"
        /\ dec = "live"

\* the error kind of each code that has one
C8_KindOf(c) ==
    CASE c = OV_ENOTVORBIS -> "NotVorbis"
      [] c = OV_EVERSION -> "VersionMismatch"
      [] c = OV_EBADHEADER -> "BadHeader"
      [] c = OV_EINVAL -> "InitialFileHeadersCorrupt"
      [] c = OV_HOLE -> "Hole"
      [] OTHER -> "none"

\* C8 as amended: a negative result of ov_read that is one of the five codes
\* with an error kind yields one error item of that kind, leaves the
\* sequence unended and the decoder open, and another pull can follow; every
\* other negative result (OV_EFAULT, OV_EREAD, a code without an arm) makes
\* the pull panic and yields no item.
C8_MappedNegativeYieldsItem ==
    (Returned("pull") /\ lastCode.val < 0) =>
        IF C8_KindOf(lastCode.val) # "none"
        THEN /\ lastRes = [kind |-> "Err", err |-> C8_KindOf(lastCode.val)]
             /\ panicked = "no"
             /\ dec = "live"
             /\ clearCalls = 0
             /\ seq.ended = endedBefore
             /\ ENABLED Pull
        ELSE /\ lastRes.kind = "Panic"
             /\ panicked # "no"

C8_Witness ==
    /\ Returned("pull")
    /\ lastCode.val = OV_HOLE
    /\ lastRes = [kind |-> "Err", err |-> "Hole"]
    /\ dec = "live"

(***************************************************************************)
(* Properties of the Comment accessors.                                    *)
(***************************************************************************)
\* the raw bytes of the comment in hand, as the engine stores them
Raw == vc[cidx + 1]

\* the offsets (0-based) of the '=' bytes of b
EqOffsets(b) == {p \in 0..(Len(b) - 1) : b[p + 1] = 61}

\* the offset of the first '=' of b
FirstEq(b) == CHOOSE p \in EqOffsets(b) : \A q \in EqOffsets(b) : p <= q

\* bytes[from..to) with 0-based offsets
Slice(b, from, to) == [i \in 1..(to - from) |-> b[from + i]]

FormatError == [kind |-> "Err", err |-> "CommentFormat"]

\* C9: the separator is the first '=': key_bytes is bytes[0..p) and
\* value_bytes is bytes[p+1..], has_key compares with bytes[0..p), and the
\* text key() and value() return is that of these parts; with no '=' every
\* one of the five accessors returns CommentFormat.
C9_SeparatorIsFirstEq ==
    (cm.some /\ cop.name \in {"key_bytes", "value_bytes", "has_key", "key", "value"}) =>
        IF EqOffsets(Raw) = {}
        THEN cres = FormatError
        ELSE LET p == FirstEq(Raw)
                 keyPart == Slice(Raw, 0, p)
                 valuePart == Slice(Raw, p + 1, Len(Raw))
             IN  /\ cop.name = "key_bytes" => cres = [kind |-> "Ok", val |-> keyPart]
                 /\ cop.name = "value_bytes" =>
                       cres = [kind |-> "Ok", val |-> valuePart]
                 /\ cop.name = "has_key" =>
                       cres = [kind |-> "Ok", val |-> (cop.arg = keyPart)]
                 /\ (cop.name = "key" /\ cres.kind = "Ok") => cres.val = keyPart
                 /\ (cop.name = "value" /\ cres.kind = "Ok") => cres.val = valuePart

\* value_bytes of a comment with two '=' bytes: the second belongs to the value
C9_Witness ==
    /\ cm.some
    /\ cop.name = "value_bytes"
    /\ Cardinality(EqOffsets(Raw)) = 2
    /\ cres.kind = "Ok"
    /\ 61 \in {cres.val[i] : i \in 1..Len(cres.val)}

\* C10: for a comment with a separator, key() returns CommentFormat exactly
\* when some byte of the key portion is outside 0x20..0x7D, and otherwise
\* returns the key portion unchanged as text.
C10_KeyByteRange ==
    (cm.some /\ cop.name = "key" /\ EqOffsets(Raw) # {}) =>
        LET keyPart == Slice(Raw, 0, FirstEq(Raw))
            outside == \E i \in 1..Len(keyPart) :
                          keyPart[i] < 32 \/ keyPart[i] > 125
        IN  IF outside THEN cres = FormatError
            ELSE cres = [kind |-> "Ok", val |-> keyPart]

\* key() has rejected a key holding '~' (0x7E)
C10_Witness ==
    /\ cm.some
    /\ cop.name = "key"
    /\ EqOffsets(Raw) # {}
    /\ Raw[1] = 126
    /\ FirstEq(Raw) = 1
    /\ cres = FormatError

\* the byte strings that encode one Unicode scalar value in UTF-8, among
\* those of the bytes in B (the well-formed byte sequences of the standard)
WellFormedChars(B) ==
    LET R(lo, hi) == B \cap (lo..hi)
        T == R(128, 191)
    IN  {<<a>> : a \in R(0, 127)}
        \cup {<<a, b>> : a \in R(194, 223), b \in T}
        \cup {<<a, b, c>> : a \in R(224, 224), b \in R(160, 191), c \in T}
        \cup {<<a, b, c>> : a \in R(225, 236) \cup R(238, 239), b \in T, c \in T}
        \cup {<<a, b, c>> : a \in R(237, 237), b \in R(128, 159), c \in T}
        \cup {<<a, b, c, d>> : a \in R(240, 240), b \in R(144, 191), c \in T, d \in T}
        \cup {<<a, b, c, d>> : a \in R(241, 243), b \in T, c \in T, d \in T}
        \cup {<<a, b, c, d>> : a \in R(244, 244), b \in R(128, 143), c \in T, d \in T}

\* b is a concatenation of well-formed sequences: ok[k] says b[1..k] is one
IsUtf8(b) ==
    LET W == WellFormedChars({b[i] : i \in 1..Len(b)})
        ok[k \in 0..Len(b)] ==
            IF k = 0 THEN TRUE
            ELSE \E n \in 1..4 :
                    /\ n <= k
                    /\ ok[k - n]
                    /\ Slice(b, k - n, k) \in W
    IN  ok[Len(b)]

CharacterError == [kind |-> "Err", err |-> "CommentCharacter"]

\* C11: value() returns CommentCharacter exactly when the comment has a
\* separator and the bytes after it are not valid UTF-8, and returns them as
\* text when they are, whatever the key portion holds; key() on a comment
\* with a separator returns the key portion whenever all its bytes are in
\* 0x20..0x7D, whatever the value portion holds.
C11_KeyValueIndependent ==
    cm.some =>
        LET sep == EqOffsets(Raw) # {}
            keyPart == Slice(Raw, 0, FirstEq(Raw))
            valuePart == Slice(Raw, FirstEq(Raw) + 1, Len(Raw))
            keyValid == \A i \in 1..Len(keyPart) :
                           keyPart[i] >= 32 /\ keyPart[i] <= 125
        IN  /\ cval # NoRes =>
                  /\ (cval = CharacterError) <=> (sep /\ ~IsUtf8(valuePart))
                  /\ (sep /\ IsUtf8(valuePart)) =>
                        cval = [kind |-> "Ok", val |-> valuePart]
            /\ (ckey # NoRes /\ sep /\ keyValid) =>
                  ckey = [kind |-> "Ok", val |-> keyPart]

\* on one comment value() has failed with CommentCharacter and key() has
\* succeeded
C11_Witness ==
    /\ cm.some
    /\ cval = CharacterError
    /\ ckey.kind = "Ok"

\* on one comment key() has failed and value() has succeeded
C11_WitnessConverse ==
    /\ cm.some
    /\ ckey = FormatError
    /\ cval.kind = "Ok"

\* C15: bytes() returns, for every comment, an owned copy equal to the
\* comment's raw bytes.
C15_BytesCopiesRaw ==
    (cm.some /\ cop.name = "bytes") => cres = [kind |-> "Ok", val |-> Raw]

\* the key and value parts of a comment b that has a separator
KeyPart(b) == Slice(b, 0, FirstEq(b))
ValuePart(b) == Slice(b, FirstEq(b) + 1, Len(b))

\* b has a separator, a key of bytes 0x20..0x7D and a UTF-8 value
WellFormed(b) ==
    /\ EqOffsets(b) # {}
    /\ \A i \in 1..Len(KeyPart(b)) : KeyPart(b)[i] >= 32 /\ KeyPart(b)[i] <= 125
    /\ IsUtf8(ValuePart(b))

\* C12: when every comment is well-formed, get_comment(key) returns exactly
\* the values of the comments whose key bytes equal key, in storage order,
\* duplicates kept; a key differing in case or a proper prefix does not match.
C12_GetCommentMatches ==
    (cop.name = "get_comment" /\ \A i \in 1..Len(vc) : WellFormed(vc[i])) =>
        LET hits == SelectSeq(vc, LAMBDA b : KeyPart(b) = cop.arg) IN
        cres = [kind |-> "Ok",
                val |-> [i \in 1..Len(hits) |-> ValuePart(hits[i])]]

\* get_comment("A") over ["A=2", "AA=1" or "a=1", "A=1"] gave ["2", "1"]
C12_Witness ==
    /\ cop = [name |-> "get_comment", arg |-> <<65>>]
    /\ Len(vc) = 3
    /\ \A i \in 1..Len(vc) : WellFormed(vc[i])
    /\ KeyPart(vc[2]) \in {<<65, 65>>, <<97>>}
    /\ cres = [kind |-> "Ok", val |-> << <<50>>, <<49>> >>]

\* the least index of comments that satisfies the set idx
FirstOf(idx) == CHOOSE i \in idx : \A j \in idx : i <= j

\* C13 as stated: get_comment fails at the first comment, in storage order,
\* that has no separator, a key with an invalid byte or a value that is not
\* UTF-8, with that comment's error, and is Ok only when there is none.
C13_FailsAtFirstUndecodable ==
    cop.name = "get_comment" =>
        LET bad == {i \in 1..Len(vc) : ~WellFormed(vc[i])} IN
        IF bad = {} THEN cres.kind = "Ok"
        ELSE /\ cres.kind = "Err"
             /\ (cres = CharacterError) =>
                    /\ EqOffsets(vc[FirstOf(bad)]) # {}
                    /\ ~IsUtf8(ValuePart(vc[FirstOf(bad)]))

\* a comment that stops get_comment(k): no separator, or the key asked for
\* with a value that is not UTF-8
Stops(b, k) ==
    \/ EqOffsets(b) = {}
    \/ KeyPart(b) = k /\ ~IsUtf8(ValuePart(b))

\* C13: get_comment(key) fails at the first comment, in storage order, that
\* has no separator or that has the requested key and a value that is not
\* UTF-8: it returns that comment's error and no partial list of values, and
\* it returns Ok when there is no such comment.
C13_FailsAtFirstUnreadable ==
    cop.name = "get_comment" =>
        LET bad == {i \in 1..Len(vc) : Stops(vc[i], cop.arg)} IN
        IF bad = {} THEN cres.kind = "Ok"
        ELSE cres = IF EqOffsets(vc[FirstOf(bad)]) = {}
                    THEN FormatError ELSE CharacterError

\* get_comment failed at a comment after it had collected a value
C13_Witness ==
    /\ cop.name = "get_comment"
    /\ cres.kind = "Err"
    /\ LET bad == {i \in 1..Len(vc) : Stops(vc[i], cop.arg)} IN
       /\ bad # {}
       /\ \E j \in 1..(FirstOf(bad) - 1) : KeyPart(vc[j]) = cop.arg

\* the Comments of the list vc, in storage order
AllComments ==
    [i \in 1..Len(vc) |->
        [bytes |-> vc[i],
         sep_pos |-> IF EqOffsets(vc[i]) = {} THEN NoneV
                     ELSE Some(FirstEq(vc[i]))]]

\* C14: every comments() cursor starts at index 0 and yields comment_at(0),
\* ..., comment_at(count-1) in storage order and then ends, whatever other
\* cursors exist or existed; fold_comments visits the same sequence; and
\* comment_at returns nothing for an index below 0 or at or above count.
C14_CommentsRestartable ==
    /\ \A i \in Cursors :
          iters[i].open =>
              /\ iters[i].index \in 0..Len(vc)
              /\ iters[i].yielded = SubSeq(AllComments, 1, iters[i].index)
              /\ iters[i].ended => iters[i].yielded = AllComments
    /\ cop.name = "fold_comments" => cres = [kind |-> "Ok", val |-> AllComments]
    /\ cop.name = "comment_at" =>
          /\ cm.some <=> (cidx >= 0 /\ cidx < Len(vc))
          /\ cm.some => cm.val = AllComments[cidx + 1]

\* one cursor has ended after the whole list while another, started in
\* between, is half way, over a list of differing comments that
\* fold_comments has visited
C14_Witness ==
    /\ Len(vc) >= 2
    /\ vc[1] # vc[2]
    /\ iters["first"].ended
    /\ iters["first"].yielded = AllComments
    /\ iters["second"].open
    /\ iters["second"].index = 1
    /\ cop.name = "fold_comments"

\* C16: every turn of read_func's loop makes one stream read; on Ok(n) the
\* callback returns n, also when n is below the requested count, and leaves
\* read_error as it was; on an interrupted failure it neither returns nor
\* stores anything and reads once more; on any other failure it stores the
\* error in read_error and returns 0.
C16_ReadCallbackStep ==
    [][pc = "read_func" =>
          LET r == lastStream' IN
          /\ r \in StreamResults(nmemb)
          /\ (r.kind = "Ok") =>
                /\ pc' = "engine"
                /\ cbRet' = r.nb
                /\ read_error' = read_error
                /\ failures' = failures
          /\ (r.kind = "Err" /\ r.ek = "Interrupted") =>
                /\ pc' = "read_func"
                /\ interrupts' = interrupts + 1
                /\ read_error' = read_error
                /\ failures' = failures
                /\ nmemb' = nmemb
          /\ (r.kind = "Err" /\ r.ek = "Other") =>
                /\ pc' = "engine"
                /\ cbRet' = 0
                /\ failures' = failures + 1
                /\ read_error' = Some(failures')]_vars

\* read_func has returned a short count after one interrupted read, with an
\* earlier error still in read_error
C16_Witness ==
    /\ pc = "engine"
    /\ nmemb = 2
    /\ interrupts = 1
    /\ lastStream = [kind |-> "Ok", nb |-> 1]
    /\ cbRet = 1
    /\ read_error.some

\* C17: read_error buffers at most one unreported I/O error, always the
\* latest stream failure, so a ReadError item carries the latest failure and
\* every item reports a failure later than the one the item before reported:
\* of two failures with no item in between, the first is never reported.
C17_SlotHoldsLatest ==
    /\ read_error.some =>
          /\ read_error.val = failures
          /\ failures > reportedUpTo
    /\ (Returned("pull") /\ lastRes.kind = "Err" /\ lastRes.err = "ReadError") =>
          /\ lastRes.io = failures
          /\ reportedUpTo = failures
          /\ prevReportedUpTo < failures
          /\ ~read_error.some

\* the stream failed twice before a pull saw 0: one item, the second error
C17_Witness ==
    /\ Returned("pull")
    /\ lastRes = [kind |-> "Err", err |-> "ReadError", io |-> 2]
    /\ prevReportedUpTo = 0
    /\ failures = 2

\* C18: for every positive decode-read result n (1 <= n <= 4096) the pull
\* yields a Packet with floor(n / 2) samples, at most 2048, whose channel
\* count, rate and bitrates are those ov_info reports for the logical
\* bitstream the engine wrote during that same ov_read call.
C18_PacketOfThisRead ==
    (Returned("pull") /\ lastCode.val > 0) =>
        LET n == lastCode.val
            infos == ov_info(current_logical_bitstream)
        IN  /\ n <= BufferSlots * BytesPerSample
            /\ lastRes.kind = "Packet"
            /\ BytesPerSample * lastRes.data <= n
            /\ n < BytesPerSample * (lastRes.data + 1)
            /\ lastRes.data <= BufferSlots
            /\ lastRes.channels = infos.channels
            /\ lastRes.rate = infos.rate
            /\ lastRes.bitrate_upper = infos.bitrate_upper
            /\ lastRes.bitrate_nominal = infos.bitrate_nominal
            /\ lastRes.bitrate_lower = infos.bitrate_lower
            /\ lastRes.bitrate_window = infos.bitrate_window

\* an odd read of 3 bytes that crossed into another logical bitstream
C18_Witness ==
    /\ Returned("pull")
    /\ lastCode = Some(3)
    /\ lastRes.kind = "Packet"
    /\ lastRes.data = 1
    /\ current_logical_bitstream # prevLink
    /\ lastRes.channels = ov_info(current_logical_bitstream).channels
    /\ lastRes.channels # ov_info(prevLink).channels

\* C19: a ReadError item produced by a pull stems from a stream read failure
\* that happened during that same decode-read call.
C19_ErrorFromThisRead ==
    (Returned("pull") /\ lastRes.kind = "Err" /\ lastRes.err = "ReadError") =>
        failedInCall

====
